---- MODULE Spec2Model ----
(***************************************************************************)
(* The sticker search bot (src/main.rs, src/model.rs, src/strings.rs) as a *)
(* state machine.  The state is the database (tables sticker,              *)
(* tagged_sticker, allowed_user) and the handlers that are between two     *)
(* database round trips.  Every action is one handler step that ends at    *)
(* an await on the database: the arrival of an update, the local checks    *)
(* and the replies touch no shared state and are folded into the step of   *)
(* the database statement they precede or follow.                          *)
(***************************************************************************)
EXTENDS Integers, Sequences, FiniteSets, Bags, TLC

VARIABLES
    users,       \* table allowed_user, in the order of the inserts
    stickers,    \* table sticker, in the order of the inserts
    tagged,      \* table tagged_sticker
    tagSeq,      \* the sequence behind tagged_sticker.id
    tasks,       \* the handlers that are between two database statements
    last,        \* what the last step answered, if it ended a handler
    chosenDone   \* per sticker id, the popularity updates executed

vars == <<users, stickers, tagged, tagSeq, tasks, last, chosenDone>>

store == <<users, stickers, tagged>>

-----------------------------------------------------------------------------
(* Bounds of the model *)

\* handlers that can be between two database statements at the same time
MaxTasks == 2
\* tagged_sticker rows inserted over a run
MaxTagged == 2
\* popularity updates issued over a run
MaxChosen == 3

-----------------------------------------------------------------------------
(* Program constants *)

QUERY_RESULT_MAX == 50

SENDER_UNKNOWN == "SENDER_UNKNOWN"
TAG_NOT_AUTHORIZED == "TAG_NOT_AUTHORIZED"
TAGGED_STICKER == "TAGGED_STICKER"
USERNAME_MISSING == "USERNAME_MISSING"
NEED_APPROVAL == "NEED_APPROVAL"
NOT_REGISTERED == "NOT_REGISTERED"
WRONG_ARGNUM == "WRONG_ARGNUM"
NO_PERM == "NO_PERM"
NO_STICKER_SET == "NO_STICKER_SET"
STICKER_UNTAGGED == "STICKER_UNTAGGED"
UNTAG_SUCCESS == "UNTAG_SUCCESS"
NO_REPLY_STICKER == "NO_REPLY_STICKER"
NO_TAGS == "NO_TAGS"
UPDATED_USER == "Updated user"
TAGS_ON_STICKER == "Tags on this sticker"

\* the Err(..) a handler returns to the dispatcher
ErrDatabase == "BotError::Database"
ErrChosenParse == "BotError::ChosenParse"
ErrNoSuchSticker == "BotError::NoSuchSticker"

\* Option::None
None == "None"

-----------------------------------------------------------------------------
(* Inputs: what the platform can send *)

\* the process-wide secret (DataStore.secret)
Secret == <<"s3cret">>

\* message.from(): users with a username, a user without one, or nobody
\* (user.username is an Option: None is the empty text here)
NoUsername == <<>>
Alice == [id |-> 1, username |-> <<"alice">>]
Bob == [id |-> 2, username |-> <<"bob">>]
Nameless == [id |-> 3, username |-> NoUsername]
\* another account that has the username of Alice
AliceTwin == [id |-> 4, username |-> <<"alice">>]
NoSender == [id |-> 0, username |-> NoUsername]

\* the stickers a message can carry.  A file_id identifies one file, so it
\* determines file_unique_id; one file can be known under several file_ids.
StickerA1 == [file_unique_id |-> "k1", file_id |-> "f1", set_name |-> "set"]
StickerA2 == [file_unique_id |-> "k1", file_id |-> "f2", set_name |-> "set"]
StickerB == [file_unique_id |-> "k2", file_id |-> "f3", set_name |-> "set"]
StickerLoose == [file_unique_id |-> "k3", file_id |-> "f4", set_name |-> None]
NoSticker == [file_unique_id |-> None, file_id |-> None, set_name |-> None]

\* message.reply_to_message(): none, a message without sticker, a sticker
NoReply == [kind |-> "none", sticker |-> NoSticker]
TextReply == [kind |-> "text", sticker |-> NoSticker]
StickerReply(s) == [kind |-> "sticker", sticker |-> s]

\* texts are sequences of characters; a name or a secret counts as one
\* character, as no handler looks inside it
AllowText(secret, username) == secret \o <<" ">> \o username

\* a command: message.from(), message.reply_to_message() and the text after
\* the command
Msg(sender, reply_to, text) ==
    [sender |-> sender, reply_to |-> reply_to, text |-> text]

-----------------------------------------------------------------------------
(* Text *)

\* str::split_whitespace, from position i on, cur being the token read so far
RECURSIVE SplitFrom(_, _, _)
SplitFrom(s, i, cur) ==
    IF i > Len(s)
    THEN IF cur = <<>> THEN <<>> ELSE <<cur>>
    ELSE IF s[i] = " "
         THEN IF cur = <<>>
              THEN SplitFrom(s, i + 1, <<>>)
              ELSE <<cur>> \o SplitFrom(s, i + 1, <<>>)
         ELSE SplitFrom(s, i + 1, Append(cur, s[i]))

\* text.trim().split_whitespace().collect()
split_whitespace(s) == SplitFrom(s, 1, <<>>)

\* a bug IsBlank could have: the trim left out
IsEmptyText(s) == s = <<>>

\* query_str.trim() == ""
IsBlank(s) == \A i \in 1..Len(s) : s[i] = " "

\* Column::Tag.contains(query): tag LIKE '%query%'
contains(tag, query) ==
    \E i \in 0..(Len(tag) - Len(query)) :
        SubSeq(tag, i + 1, i + Len(query)) = query

Range(s) == {s[i] : i \in 1..Len(s)}

-----------------------------------------------------------------------------
(* The tables and the handlers in flight *)

\* the ids table sticker can hand out: one row per file_id at most
StickerIds == 1..4

\* a handler between two statements: where it is and its local variables;
\* created says that inserted_sticker_res is Ok, false until a /tag handler
\* has inserted its sticker
Task(pc, db_user, sticker, sticker_id, text, rows, popularity) ==
    [pc |-> pc, db_user |-> db_user, sticker |-> sticker,
     sticker_id |-> sticker_id, text |-> text, rows |-> rows,
     popularity |-> popularity, created |-> FALSE]

\* what the last step answered: the handler, its reply or the error it
\* returned, and the ids it answered with or acted on
Outcome(kind, reply, result) ==
    [kind |-> kind, reply |-> reply, result |-> result]

NoOutcome == Outcome("none", None, <<>>)

Init ==
    /\ users = <<>>
    /\ stickers = <<>>
    /\ tagged = {}
    /\ tagSeq = 0
    /\ tasks = EmptyBag
    /\ last = NoOutcome
    /\ chosenDone = [id \in StickerIds |-> 0]

Running(pc) == {tk \in BagToSet(tasks) : tk.pc = pc}

\* a handler reaches its first await with a statement still to run
Start(tk) ==
    /\ BagCardinality(tasks) < MaxTasks
    /\ tasks' = tasks (+) SetToBag({tk})
    /\ last' = NoOutcome

\* a handler goes from one statement to the next
Step(tk, next) ==
    /\ tasks' = (tasks (-) SetToBag({tk})) (+) SetToBag({next})
    /\ last' = NoOutcome

\* a handler returns
End(tk, outcome) ==
    /\ tasks' = tasks (-) SetToBag({tk})
    /\ last' = outcome

\* a handler returns at its first await
Once(outcome) ==
    /\ tasks' = tasks
    /\ last' = outcome

\* Entity::find().filter(Column::UserId.eq(sender.id)): the rows found, at
\* most one as user_id is unique
UsersByUserId(user_id) ==
    {i \in 1..Len(users) : users[i].user_id = user_id}

\* Entity::find().filter(Column::Username.eq(username)) on the table us:
\* username is not unique
UsersByUsername(us, username) ==
    {i \in 1..Len(us) : us[i].username = username}

\* a bug StickersByFileUniqueId could have: the filter left out, so that
\* one() returns whatever row comes first
StickersUnfiltered(file_unique_id) == 1..Len(stickers)

\* Entity::find().filter(Column::FileUniqueId.eq(file_unique_id)): the rows
\* found; one() returns any of them
StickersByFileUniqueId(file_unique_id) ==
    {i \in 1..Len(stickers) : stickers[i].file_unique_id = file_unique_id}

\* a bug StickersById could have: any row returned when none has the id
StickersByIdOrAny(sticker_id) ==
    IF \E i \in 1..Len(stickers) : stickers[i].id = sticker_id
    THEN {i \in 1..Len(stickers) : stickers[i].id = sticker_id}
    ELSE 1..Len(stickers)

\* Entity::find().filter(Column::Id.eq(sticker_id))
StickersById(sticker_id) ==
    {i \in 1..Len(stickers) : stickers[i].id = sticker_id}

-----------------------------------------------------------------------------
(* /register: handle_register_command *)

\* a bug user_insert could have: an insert that overwrites the row of a
\* user_id that is already there (ON CONFLICT DO UPDATE)
user_insert_upsert(us, sender) ==
    [ok |-> TRUE,
     users |-> IF \E i \in 1..Len(us) : us[i].user_id = sender.id
               THEN [i \in 1..Len(us) |->
                        IF us[i].user_id = sender.id
                        THEN [us[i] EXCEPT !.username = sender.username,
                                           !.allowed = FALSE]
                        ELSE us[i]]
               ELSE Append(us, [id |-> Len(us) + 1, user_id |-> sender.id,
                                username |-> sender.username,
                                allowed |-> FALSE])]

\* user::Entity::insert(..): Err on the unique user_id, else the table with
\* the new row, allowed false
user_insert(us, sender) ==
    IF \E i \in 1..Len(us) : us[i].user_id = sender.id
    THEN [ok |-> FALSE, users |-> us]
    ELSE [ok |-> TRUE,
          users |-> Append(us, [id |-> Len(us) + 1, user_id |-> sender.id,
                                username |-> sender.username,
                                allowed |-> FALSE])]

handle_register_command(senders) ==
    \E sender \in senders :
        LET out(reply) == Outcome("register", reply, <<>>)
        IN  /\ IF sender = NoSender
               THEN /\ Once(out(SENDER_UNKNOWN))
                    /\ UNCHANGED users
               ELSE IF sender.username = NoUsername
               THEN /\ Once(out(USERNAME_MISSING))
                    /\ UNCHANGED users
               ELSE /\ users' = user_insert(users, sender).users
                    /\ IF user_insert(users, sender).ok
                       THEN Once(out(NEED_APPROVAL))
                       ELSE Once(out(ErrDatabase))
            /\ UNCHANGED <<stickers, tagged, tagSeq, chosenDone>>

-----------------------------------------------------------------------------
(* /allow <secret> <username>: handle_allow_command *)

\* secret != store.secret
secret_mismatch(secret) == secret # Secret

\* a bug allow_reply could have: the username queried before the secret is
\* verified
allow_reply_lookup_first(us, args) ==
    IF Len(args) # 2 THEN WRONG_ARGNUM
    ELSE IF UsersByUsername(us, args[2]) = {} THEN NOT_REGISTERED
    ELSE IF secret_mismatch(args[1]) THEN NO_PERM
    ELSE None

\* the handler up to the query of the username, on the table us: the reply
\* that ends it, or None when it goes on to the update
allow_reply(us, args) ==
    IF Len(args) # 2 THEN WRONG_ARGNUM
    ELSE IF secret_mismatch(args[1]) THEN NO_PERM
    ELSE IF UsersByUsername(us, args[2]) = {} THEN NOT_REGISTERED
    ELSE None

\* up to the query of the username
AllowFindUser(texts) ==
    /\ \E text \in texts :
        LET args == split_whitespace(text)
        IN  IF allow_reply(users, args) # None
            THEN Once(Outcome("allow", allow_reply(users, args), <<>>))
            ELSE \E i \in UsersByUsername(users, args[2]) :
                    Start(Task("allow_update", users[i].id, NoSticker, 0,
                               text, {}, 0))
    /\ UNCHANGED <<users, stickers, tagged, tagSeq, chosenDone>>

\* a bug user_allow could have: an update without the WHERE of the id, which
\* allows every row
user_allow_all(us, id) == [i \in 1..Len(us) |-> [us[i] EXCEPT !.allowed = TRUE]]

\* user_active.allowed = Set(true); user_active.update(): UPDATE allowed_user
\* SET allowed = true WHERE id = user.id
user_allow(us, id) == [us EXCEPT ![id].allowed = TRUE]

AllowUpdate ==
    /\ \E tk \in Running("allow_update") :
        /\ users' = user_allow(users, tk.db_user)
        /\ End(tk, Outcome("allow", UPDATED_USER, <<tk.db_user>>))
    /\ UNCHANGED <<stickers, tagged, tagSeq, chosenDone>>

-----------------------------------------------------------------------------
(* /tag <text>: handle_tag_command *)

\* a bug is_allowed could have: the check of db_user.allowed left out
is_allowed_if_known(found) == found # {}

\* db_user found and db_user.allowed == true
is_allowed(found) == \E i \in found : users[i].allowed

\* a bug tag_precheck could have: the check of the set name left out
tag_precheck_no_set_check(sender, reply_to, tags) ==
    IF reply_to.kind = "none" THEN NO_REPLY_STICKER
    ELSE IF sender = NoSender THEN SENDER_UNKNOWN
    ELSE IF ~is_allowed(UsersByUserId(sender.id)) THEN TAG_NOT_AUTHORIZED
    ELSE IF reply_to.kind # "sticker" THEN NO_REPLY_STICKER
    ELSE IF tags = <<>> THEN NO_TAGS
    ELSE None

\* a bug tag_precheck could have: the check of tags.is_empty() left out
tag_precheck_no_tags_check(sender, reply_to, tags) ==
    IF reply_to.kind = "none" THEN NO_REPLY_STICKER
    ELSE IF sender = NoSender THEN SENDER_UNKNOWN
    ELSE IF ~is_allowed(UsersByUserId(sender.id)) THEN TAG_NOT_AUTHORIZED
    ELSE IF reply_to.kind # "sticker" THEN NO_REPLY_STICKER
    ELSE IF reply_to.sticker.set_name = None THEN NO_STICKER_SET
    ELSE None

\* a bug tag_precheck could have: tags.is_empty() checked before the set
\* name
tag_precheck_tags_first(sender, reply_to, tags) ==
    IF reply_to.kind = "none" THEN NO_REPLY_STICKER
    ELSE IF sender = NoSender THEN SENDER_UNKNOWN
    ELSE IF ~is_allowed(UsersByUserId(sender.id)) THEN TAG_NOT_AUTHORIZED
    ELSE IF reply_to.kind # "sticker" THEN NO_REPLY_STICKER
    ELSE IF tags = <<>> THEN NO_TAGS
    ELSE IF reply_to.sticker.set_name = None THEN NO_STICKER_SET
    ELSE None

\* the checks of /tag in the order of the code, the query of the sender
\* included: the reply that ends the handler, or None to go on
tag_precheck(sender, reply_to, tags) ==
    IF reply_to.kind = "none" THEN NO_REPLY_STICKER
    ELSE IF sender = NoSender THEN SENDER_UNKNOWN
    ELSE IF ~is_allowed(UsersByUserId(sender.id)) THEN TAG_NOT_AUTHORIZED
    ELSE IF reply_to.kind # "sticker" THEN NO_REPLY_STICKER
    ELSE IF reply_to.sticker.set_name = None THEN NO_STICKER_SET
    ELSE IF tags = <<>> THEN NO_TAGS
    ELSE None

TagPcs == {"tag_insert", "tag_select", "tag_insert_many"}

\* rows the running /tag handlers are still to insert
RECURSIVE PendingTags(_)
PendingTags(b) ==
    IF b = EmptyBag THEN 0
    ELSE LET tk == CHOOSE x \in BagToSet(b) : TRUE
         IN  (IF tk.pc \in TagPcs THEN Len(split_whitespace(tk.text)) ELSE 0)
             + PendingTags(b (-) SetToBag({tk}))

\* up to the query of the sender in allowed_user
TagFindUser(msgs) ==
    /\ \E msg \in msgs :
        LET sender == msg.sender
            reply_to == msg.reply_to
            text == msg.text
            tags == split_whitespace(text)
            out(reply) == Outcome("tag", reply, <<>>)
        IN  IF tag_precheck(sender, reply_to, tags) # None
            THEN Once(out(tag_precheck(sender, reply_to, tags)))
            ELSE /\ tagSeq + PendingTags(tasks) + Len(tags) <= MaxTagged
                 /\ \E i \in UsersByUserId(sender.id) :
                        Start(Task("tag_insert", users[i].id, reply_to.sticker,
                                   0, text, {}, 0))
    /\ UNCHANGED <<users, stickers, tagged, tagSeq, chosenDone>>

\* the unique constraint model.rs declares for table sticker
\* (#[sea_orm(unique)] on file_id): the rows an insert of s conflicts with
file_id_conflicts(rows, s) ==
    {i \in 1..Len(rows) : rows[i].file_id = s.file_id}

\* Column file_unique_id, which main.rs inserts and selects by, has no
\* declaration in model.rs; its constraint is the one the specification
\* gives external_unique_key: unique
file_unique_id_conflicts(rows, s) ==
    {i \in 1..Len(rows) : rows[i].file_unique_id = s.file_unique_id}

\* a bug sticker_conflicts could have: a table without unique constraint,
\* where every insert succeeds
sticker_conflicts_none(rows, s) == {}

\* the rows that make sticker::Entity::insert of s fail
sticker_conflicts(rows, s) ==
    file_id_conflicts(rows, s) \cup file_unique_id_conflicts(rows, s)

\* the row sticker::Entity::insert adds: popularity 0, the next id
new_sticker(rows, s) ==
    [id |-> Len(rows) + 1, file_unique_id |-> s.file_unique_id,
     file_id |-> s.file_id, set_name |-> s.set_name, popularity |-> 0]

\* sticker::Entity::insert(..).exec(): Ok(last_insert_id), or Err on the
\* unique constraint, or Err for any other reason (db_err) and no row added
TagInsertSticker ==
    /\ \E tk \in Running("tag_insert"), db_err \in BOOLEAN :
        IF db_err \/ sticker_conflicts(stickers, tk.sticker) # {}
        THEN /\ Step(tk, [tk EXCEPT !.pc = "tag_select"])
             /\ UNCHANGED stickers
        ELSE /\ stickers' = Append(stickers, new_sticker(stickers, tk.sticker))
             /\ Step(tk, [tk EXCEPT !.pc = "tag_insert_many",
                                    !.sticker_id = Len(stickers) + 1,
                                    !.created = TRUE])
    /\ UNCHANGED <<users, tagged, tagSeq, chosenDone>>

\* Err(_) => the fallback select by file_unique_id
TagSelectSticker ==
    /\ \E tk \in Running("tag_select") :
        LET found == StickersByFileUniqueId(tk.sticker.file_unique_id)
        IN  IF found = {}
            THEN End(tk, Outcome("tag", ErrNoSuchSticker, <<>>))
            ELSE \E i \in found :
                    Step(tk, [tk EXCEPT !.pc = "tag_insert_many",
                                        !.sticker_id = stickers[i].id])
    /\ UNCHANGED <<users, stickers, tagged, tagSeq, chosenDone>>

\* a bug tagged_rows could have: a row left out when the table already
\* holds one with its tag, sticker and tagger
tagged_rows_new_only(tags, sticker_id, tagger_id, seq) ==
    {[id |-> seq + k, tag |-> tags[k], sticker_id |-> sticker_id,
      tagger_id |-> tagger_id] :
        k \in {j \in 1..Len(tags) :
                ~\E row \in tagged : /\ row.tag = tags[j]
                                     /\ row.sticker_id = sticker_id
                                     /\ row.tagger_id = tagger_id}}

\* tags.iter().map(..): one row per tag, ids from the table's sequence
tagged_rows(tags, sticker_id, tagger_id, seq) ==
    {[id |-> seq + k, tag |-> tags[k], sticker_id |-> sticker_id,
      tagger_id |-> tagger_id] : k \in 1..Len(tags)}

\* tagged_sticker::Entity::insert_many(tagged_stickers).exec().await?: all
\* the rows in one statement, or Err (db_err), no row, and the handler
\* returns the error; nothing undoes the insert of the sticker
TagInsertMany ==
    /\ \E tk \in Running("tag_insert_many"), db_err \in BOOLEAN :
        LET tags == split_whitespace(tk.text)
        IN  IF db_err
            THEN /\ UNCHANGED <<tagged, tagSeq>>
                 /\ End(tk, Outcome("tag", ErrDatabase, <<>>))
            ELSE /\ tagged' = tagged \cup
                        tagged_rows(tags, tk.sticker_id, tk.db_user, tagSeq)
                 /\ tagSeq' = tagSeq + Len(tags)
                 /\ End(tk, Outcome("tag", TAGGED_STICKER, <<tk.sticker_id>>))
    /\ UNCHANGED <<users, stickers, chosenDone>>

-----------------------------------------------------------------------------
(* /untag <text>: handle_untag_command *)

\* the checks of /untag in the order of the code, the query of the sender
\* included
untag_precheck(sender, reply_to) ==
    IF reply_to.kind = "none" THEN NO_REPLY_STICKER
    ELSE IF sender = NoSender THEN SENDER_UNKNOWN
    ELSE IF ~is_allowed(UsersByUserId(sender.id)) THEN TAG_NOT_AUTHORIZED
    ELSE IF reply_to.kind # "sticker" THEN NO_REPLY_STICKER
    ELSE None

\* up to the query of the sender in allowed_user
UntagFindUser(msgs) ==
    /\ \E msg \in msgs :
        LET sender == msg.sender
            reply_to == msg.reply_to
            text == msg.text
            out(reply) == Outcome("untag", reply, <<>>)
        IN  IF untag_precheck(sender, reply_to) # None
            THEN Once(out(untag_precheck(sender, reply_to)))
            ELSE \E i \in UsersByUserId(sender.id) :
                    Start(Task("untag_find", users[i].id, reply_to.sticker,
                               0, text, {}, 0))
    /\ UNCHANGED <<users, stickers, tagged, tagSeq, chosenDone>>

\* the query of the sticker by file_unique_id
UntagFindSticker ==
    /\ \E tk \in Running("untag_find") :
        LET found == StickersByFileUniqueId(tk.sticker.file_unique_id)
        IN  IF found = {}
            THEN End(tk, Outcome("untag", STICKER_UNTAGGED, <<>>))
            ELSE \E i \in found :
                    Step(tk, [tk EXCEPT !.pc = "untag_delete",
                                        !.sticker_id = stickers[i].id])
    /\ UNCHANGED <<users, stickers, tagged, tagSeq, chosenDone>>

\* a bug untag_filter could have: the filter on the tag left out
untag_filter_any_tag(row, sticker_id, untags, db_user) ==
    /\ row.sticker_id = sticker_id
    /\ row.tagger_id = db_user

\* a bug untag_filter could have: the filter on the tagger left out
untag_filter_any_tagger(row, sticker_id, untags, db_user) ==
    /\ row.sticker_id = sticker_id
    /\ row.tag \in Range(untags)

\* the filter of delete_many: StickerId.eq(sticker_id), Tag.is_in(untags),
\* TaggerId.eq(db_user.id)
untag_filter(row, sticker_id, untags, db_user) ==
    /\ row.sticker_id = sticker_id
    /\ row.tag \in Range(untags)
    /\ row.tagger_id = db_user

\* tagged_sticker::Entity::delete_many().filter(..).exec()
UntagDelete ==
    /\ \E tk \in Running("untag_delete") :
        LET deleted == {row \in tagged :
                          untag_filter(row, tk.sticker_id,
                                       split_whitespace(tk.text), tk.db_user)}
        IN  /\ tagged' = tagged \ deleted
            \* delete_res.rows_affected
            /\ End(tk, Outcome("untag", UNTAG_SUCCESS, <<Cardinality(deleted)>>))
    /\ UNCHANGED <<users, stickers, tagSeq, chosenDone>>

-----------------------------------------------------------------------------
(* /listtags: handle_list_tags_command *)

\* the checks of /listtags: neither the sender nor allowed_user is looked at
list_tags_precheck(reply_to) ==
    IF reply_to.kind = "none" THEN NO_REPLY_STICKER
    ELSE IF reply_to.kind # "sticker" THEN NO_REPLY_STICKER
    ELSE None

\* up to the query of the sticker by file_unique_id
ListTagsFindSticker(msgs) ==
    /\ \E msg \in msgs :
        LET reply_to == msg.reply_to
            found == StickersByFileUniqueId(reply_to.sticker.file_unique_id)
            out(reply) == Outcome("listtags", reply, <<>>)
        IN  IF list_tags_precheck(reply_to) # None
            THEN Once(out(list_tags_precheck(reply_to)))
            ELSE IF found = {}
            THEN Once(out(STICKER_UNTAGGED))
            ELSE \E i \in found :
                    Start(Task("list_tags", 0, reply_to.sticker, stickers[i].id,
                               <<>>, {}, 0))
    /\ UNCHANGED <<users, stickers, tagged, tagSeq, chosenDone>>

\* the query of the rows of the sticker in tagged_sticker, and the reply:
\* the tags joined, of which the number is kept here
ListTagsFindTagged ==
    /\ \E tk \in Running("list_tags") :
        LET tagged_stickers == {row \in tagged : row.sticker_id = tk.sticker_id}
        IN  IF tagged_stickers = {}
            THEN End(tk, Outcome("listtags", STICKER_UNTAGGED, <<>>))
            ELSE End(tk, Outcome("listtags", TAGS_ON_STICKER,
                                 <<Cardinality(tagged_stickers)>>))
    /\ UNCHANGED <<users, stickers, tagged, tagSeq, chosenDone>>

-----------------------------------------------------------------------------
(* a chosen inline result: chosen_inline_result_handler *)

Digits == <<"0", "1", "2", "3", "4", "5", "6", "7", "8", "9">>

IsDigit(c) == \E d \in 1..10 : Digits[d] = c
DigitValue(c) == (CHOOSE d \in 1..10 : Digits[d] = c) - 1

\* the value of the digits up to position n
RECURSIVE ParseUpTo(_, _)
ParseUpTo(s, n) ==
    IF n = 0 THEN 0 ELSE 10 * ParseUpTo(s, n - 1) + DigitValue(s[n])

\* chosen.result_id.parse::<i32>(): Ok for a non-empty string of digits
\* (signs and values beyond i32 are not among the inputs)
parse_ok(s) == Len(s) > 0 /\ \A i \in 1..Len(s) : IsDigit(s[i])
parse(s) == ParseUpTo(s, Len(s))

\* the popularity updates done so far, over all stickers
RECURSIVE ChosenTotal(_)
ChosenTotal(ids) ==
    IF ids = {} THEN 0
    ELSE LET id == CHOOSE i \in ids : TRUE
         IN  chosenDone[id] + ChosenTotal(ids \ {id})

\* up to the query of the sticker by id
ChosenFind(result_ids) ==
    /\ \E result_id \in result_ids :
        LET out(reply) == Outcome("chosen", reply, <<>>)
        IN  IF ~parse_ok(result_id)
            THEN Once(out(ErrChosenParse))
            ELSE IF StickersById(parse(result_id)) = {}
            THEN Once(out(None))
            ELSE /\ ChosenTotal(StickerIds)
                        + Cardinality(Running("chosen_update")) < MaxChosen
                 /\ \E i \in StickersById(parse(result_id)) :
                        Start(Task("chosen_update", 0, NoSticker, stickers[i].id,
                                   result_id, {}, stickers[i].popularity))
    /\ UNCHANGED <<users, stickers, tagged, tagSeq, chosenDone>>

\* new_popularity = sticker.popularity + 1, of the row as it was read
new_popularity(popularity) == popularity + 1

\* active_sticker.update(): UPDATE sticker SET popularity = new_popularity
\* WHERE id = sticker.id
ChosenUpdate ==
    /\ \E tk \in Running("chosen_update") :
        /\ stickers' = [stickers EXCEPT ![tk.sticker_id].popularity =
                           new_popularity(tk.popularity)]
        /\ chosenDone' = [chosenDone EXCEPT ![tk.sticker_id] = @ + 1]
        /\ End(tk, Outcome("chosen", None, <<tk.sticker_id>>))
    /\ UNCHANGED <<users, tagged, tagSeq>>

-----------------------------------------------------------------------------
(* an inline query: inline_query_handler *)

\* the first query: the rows whose tag contains one of the queries
\* (Condition::any() of Column::Tag.contains(query))
matching_tagged(rows, queries) ==
    {row \in rows : \E k \in 1..Len(queries) : contains(row.tag, queries[k])}

\* sort_by_key(sticker_id), dedup_by_with_count(same sticker_id), collected
\* into match_count_for_sticker_id: the number of rows read, per sticker_id
match_count_for_sticker_id(rows) ==
    [id \in {row.sticker_id : row \in rows} |->
        Cardinality({row \in rows : row.sticker_id = id})]

\* up to the first query (tags -> sticker ids)
SearchTagged(queries) ==
    /\ \E query_str \in queries :
        IF IsBlank(query_str)
        THEN Once(Outcome("query", None, <<>>))
        ELSE Start(Task("query_stickers", 0, NoSticker, 0, query_str,
                        matching_tagged(tagged, split_whitespace(query_str)), 0))
    /\ UNCHANGED <<users, stickers, tagged, tagSeq, chosenDone>>

\* the orders in which the second query can return the rows with these
\* ids: ORDER BY popularity DESC, rows of equal popularity in any order
RECURSIVE by_popularity_desc(_, _)
by_popularity_desc(rows, ids) ==
    IF ids = {} THEN {<<>>}
    ELSE UNION { {<<i>> \o rest : rest \in by_popularity_desc(rows, ids \ {i})} :
                 i \in {j \in ids : \A k \in ids :
                            rows[j].popularity >= rows[k].popularity} }

\* slice::sort_by_key(Reverse(count)) is stable: x goes after the elements
\* whose count is not smaller
RECURSIVE insert_by_count(_, _, _)
insert_by_count(sorted, x, count) ==
    IF sorted = <<>> THEN <<x>>
    ELSE IF count[sorted[1]] >= count[x]
         THEN <<sorted[1]>> \o insert_by_count(Tail(sorted), x, count)
         ELSE <<x>> \o sorted

RECURSIVE sort_by_count_desc(_, _, _)
sort_by_count_desc(s, n, count) ==
    IF n = 0 THEN <<>>
    ELSE insert_by_count(sort_by_count_desc(s, n - 1, count), s[n], count)

\* a bug truncate could have: the tail kept instead of the head
truncate_tail(s, len) ==
    IF Len(s) > len THEN SubSeq(s, Len(s) - len + 1, Len(s)) ELSE s

\* Vec::truncate(len)
truncate(s, len) == IF Len(s) > len THEN SubSeq(s, 1, len) ELSE s

\* the answers the handler can give from the rows it read: the second query
\* (sticker ids -> file ids), the sort by match count and the truncation
query_answers(rows, tagged_stickers) ==
    LET count == match_count_for_sticker_id(tagged_stickers)
    IN  { truncate(sort_by_count_desc(found, Len(found), count), QUERY_RESULT_MAX) :
          found \in by_popularity_desc(rows,
                       {i \in 1..Len(rows) : rows[i].id \in DOMAIN count}) }

SearchStickers ==
    /\ \E tk \in Running("query_stickers") :
        \E answer \in query_answers(stickers, tk.rows) :
            End(tk, Outcome("query", "answer", answer))
    /\ UNCHANGED <<users, stickers, tagged, tagSeq, chosenDone>>

-----------------------------------------------------------------------------
(* The dispatcher: every update is handled as its own task *)

Spaces == <<" ">>
C == <<"c">>
B == <<"b">>

\* The updates of the main specification, on an empty database: Alice
\* registers and gets allowed, Bob never registers; one sticker of a set and
\* one outside any set.
RegisterSenders == {Alice, Nameless, NoSender}
AllowTexts ==
    {AllowText(Secret, Alice.username),
     AllowText(Secret, <<"carol">>), AllowText(<<"guess">>, Alice.username),
     AllowText(<<"guess">>, <<"carol">>), Secret}
TagMsgs ==
    {Msg(Alice, StickerReply(StickerA1), C),
     Msg(Bob, StickerReply(StickerA1), C),
     Msg(Alice, StickerReply(StickerA1), <<>>),
     Msg(Alice, StickerReply(StickerLoose), C),
     Msg(Alice, StickerReply(StickerLoose), <<>>),
     Msg(Alice, TextReply, C),
     Msg(Alice, NoReply, C),
     Msg(NoSender, StickerReply(StickerA1), C)}
UntagMsgs ==
    {Msg(Alice, StickerReply(StickerA1), C),
     Msg(Alice, StickerReply(StickerA1), <<>>),
     Msg(Alice, TextReply, C),
     Msg(Alice, NoReply, C),
     Msg(NoSender, StickerReply(StickerA1), C)}
ResultIds == {<<"1">>, <<"1", "2">>, <<"x">>}
Queries == {Spaces, C}

Next ==
    \/ handle_register_command(RegisterSenders)
    \/ AllowFindUser(AllowTexts)
    \/ AllowUpdate
    \/ TagFindUser(TagMsgs)
    \/ TagInsertSticker
    \/ TagSelectSticker
    \/ TagInsertMany
    \/ UntagFindUser(UntagMsgs)
    \/ UntagFindSticker
    \/ UntagDelete
    \/ ChosenFind(ResultIds)
    \/ ChosenUpdate
    \/ SearchTagged(Queries)
    \/ SearchStickers

Spec == Init /\ [][Next]_vars

\* The bot on a database where Alice and Bob are registered and allowed,
\* and the stickers they tag, untag and search: two file_ids of one file
\* and another file.
InitTaggers ==
    /\ users = user_allow(user_allow(
                   user_insert(user_insert(<<>>, Alice).users, Bob).users, 1), 2)
    /\ stickers = <<>>
    /\ tagged = {}
    /\ tagSeq = 0
    /\ tasks = EmptyBag
    /\ last = NoOutcome
    /\ chosenDone = [id \in StickerIds |-> 0]

CB == <<"c", "b">>
C_B == <<"c", " ", "b">>

TaggersTagMsgs ==
    {Msg(Alice, StickerReply(StickerA1), C),
     Msg(Bob, StickerReply(StickerA1), C),
     Msg(Alice, StickerReply(StickerA1), C_B),
     Msg(Alice, StickerReply(StickerA2), C),
     Msg(Alice, StickerReply(StickerB), CB)}
TaggersUntagMsgs ==
    {Msg(Alice, StickerReply(StickerA1), C),
     Msg(Bob, StickerReply(StickerA1), C),
     Msg(Alice, StickerReply(StickerB), C)}
TaggersQueries == {C, B, C_B}

NextTaggers ==
    \/ TagFindUser(TaggersTagMsgs)
    \/ TagInsertSticker
    \/ TagSelectSticker
    \/ TagInsertMany
    \/ UntagFindUser(TaggersUntagMsgs)
    \/ UntagFindSticker
    \/ UntagDelete
    \/ SearchTagged(TaggersQueries)
    \/ SearchStickers

SpecTaggers == InitTaggers /\ [][NextTaggers]_vars

\* Every handler of the bot, /listtags included, on an empty database, with
\* one update of each kind, the /tag of one file under two file_ids and the
\* /tag of a sticker outside any set, with a tag and without.
LifecycleTagMsgs ==
    {Msg(Alice, StickerReply(StickerA1), C),
     Msg(Alice, StickerReply(StickerA2), C),
     Msg(Alice, StickerReply(StickerLoose), C),
     Msg(Alice, StickerReply(StickerLoose), <<>>)}
LifecycleUntagMsgs == {Msg(Alice, StickerReply(StickerA1), C)}
ListTagsMsgs ==
    {Msg(Alice, StickerReply(StickerA1), <<>>),
     Msg(Alice, StickerReply(StickerLoose), <<>>),
     Msg(Alice, TextReply, <<>>),
     Msg(Alice, NoReply, <<>>)}

NextLifecycle ==
    \/ handle_register_command({Alice})
    \/ AllowFindUser({AllowText(Secret, Alice.username)})
    \/ AllowUpdate
    \/ TagFindUser(LifecycleTagMsgs)
    \/ TagInsertSticker
    \/ TagSelectSticker
    \/ TagInsertMany
    \/ UntagFindUser(LifecycleUntagMsgs)
    \/ UntagFindSticker
    \/ UntagDelete
    \/ ListTagsFindSticker(ListTagsMsgs)
    \/ ListTagsFindTagged
    \/ ChosenFind({<<"1">>})
    \/ ChosenUpdate
    \/ SearchTagged({C})
    \/ SearchStickers

SpecLifecycle == Init /\ [][NextLifecycle]_vars

\* The bot on a database that holds more stickers than one answer can
\* list: Alice has tagged CapStickers stickers with "c" and every second
\* one with "b" too, and sticker i has been chosen i times.
CapStickers == QUERY_RESULT_MAX + 2

InitCap ==
    /\ users = user_allow(user_insert(<<>>, Alice).users, 1)
    /\ stickers = [i \in 1..CapStickers |->
                      [id |-> i, file_unique_id |-> ToString(i),
                       file_id |-> ToString(i), set_name |-> "set",
                       popularity |-> i]]
    /\ tagged =
            UNION {tagged_rows(<<C>>, i, 1, i - 1) : i \in 1..CapStickers}
            \cup UNION {tagged_rows(<<B>>, 2 * j, 1, CapStickers + j - 1) :
                           j \in 1..(CapStickers \div 2)}
    /\ tagSeq = CapStickers + CapStickers \div 2
    /\ tasks = EmptyBag
    /\ last = NoOutcome
    /\ chosenDone = [id \in StickerIds |-> 0]

CapQueries == {C, C_B}
CapResultIds == {<<"1">>, <<"2">>}

NextCap ==
    \/ SearchTagged(CapQueries)
    \/ SearchStickers
    \/ ChosenFind(CapResultIds)
    \/ ChosenUpdate

SpecCap == InitCap /\ [][NextCap]_vars

-----------------------------------------------------------------------------
(* What the claims quantify over: any sender, any message replied to, any
   text *)

Senders == {Alice, Bob, Nameless, NoSender}
Replies ==
    {NoReply, TextReply, StickerReply(StickerA1), StickerReply(StickerA2),
     StickerReply(StickerB), StickerReply(StickerLoose)}
Texts == {<<>>, Spaces, C, B, <<"c", "b">>, <<"c", " ", "b">>, <<" ", "c", " ">>}

\* the sender has a row in allowed_user with allowed true
Allowed(sender) ==
    \E i \in 1..Len(users) : users[i].user_id = sender.id /\ users[i].allowed

-----------------------------------------------------------------------------
(* C1: however the /tag handlers for one file_unique_id interleave, table
   sticker holds at most one row with that file_unique_id, and every
   handler that has resolved a sticker id holds the id of that row. *)
C1_OneItemPerKey ==
    /\ \A i, j \in 1..Len(stickers) :
            stickers[i].file_unique_id = stickers[j].file_unique_id => i = j
    /\ \A tk \in Running("tag_insert_many") :
            \E i \in 1..Len(stickers) :
                /\ stickers[i].id = tk.sticker_id
                /\ stickers[i].file_unique_id = tk.sticker.file_unique_id

\* two handlers for the same file under different file_ids have both
\* resolved the sticker id
C1_Witness ==
    \E tk1, tk2 \in Running("tag_insert_many") :
        /\ tk1.sticker.file_unique_id = tk2.sticker.file_unique_id
        /\ tk1.sticker.file_id # tk2.sticker.file_id
        /\ tk1.sticker_id = tk2.sticker_id

(* C2: N chosen results on one sticker raise its popularity by N.  Every
   popularity starts at 0, so in every state the popularity of a sticker is
   the number of popularity updates executed on it: no increment is lost. *)
C2_NoLostIncrement ==
    \A i \in 1..Len(stickers) :
        stickers[i].popularity = chosenDone[stickers[i].id]

(* C3: the popularity of a sticker is at least 0 and no step lowers it. *)
C3_PopularityNeverLower ==
    [][\A i \in 1..Len(stickers) :
            /\ stickers[i].popularity >= 0
            /\ stickers'[i].popularity >= stickers[i].popularity]_vars

(* C4: a /tag on a replied message by a sender who has no row in
   allowed_user, or a row with allowed false, is answered with
   TAG_NOT_AUTHORIZED whatever the message and the text are, and the step
   that answers so adds no sticker and no tagged_sticker row and leaves no
   handler running. *)
C4_NotAuthorized ==
    /\ [](\A sender \in Senders \ {NoSender}, reply_to \in Replies \ {NoReply},
             text \in Texts :
            ~Allowed(sender) =>
                tag_precheck(sender, reply_to, split_whitespace(text))
                    = TAG_NOT_AUTHORIZED)
    /\ [][(last'.kind = "tag" /\ last'.reply = TAG_NOT_AUTHORIZED) =>
            /\ UNCHANGED <<users, stickers, tagged, tagSeq>>
            /\ tasks' = tasks]_vars

\* a /tag was just refused while the only row of allowed_user is not allowed
C4_Witness ==
    /\ last.kind = "tag"
    /\ last.reply = TAG_NOT_AUTHORIZED
    /\ Len(users) = 1
    /\ ~users[1].allowed

(* C5: the delete of an /untag removes no row whose tagger_id is not the
   row id of the sender: every row with another tagger_id is still there
   after the step, whatever its sticker and tag. *)
C5_UntagOwnRowsOnly ==
    [][\A tk \in Running("untag_delete") :
            (tasks' = tasks (-) SetToBag({tk}) /\ last'.kind = "untag") =>
                \A row \in tagged :
                    row.tagger_id # tk.db_user => row \in tagged']_vars

\* an /untag has just deleted a row of the sender, and a row with tag "c"
\* on the same sticker is still there: the one of the other tagger
C5_Witness ==
    /\ last.kind = "untag"
    /\ last.result = <<1>>
    /\ \E row \in tagged :
            /\ row.tag = C
            /\ stickers[row.sticker_id].file_unique_id = StickerA1.file_unique_id

(* C6: no step removes a row of allowed_user or changes its user_id, a new
   row starts with allowed false, and no step takes allowed from true to
   false. *)
C6_AuthorizationMonotone ==
    [][/\ Len(users') >= Len(users)
       /\ \A i \in 1..Len(users) :
            /\ users'[i].id = users[i].id
            /\ users'[i].user_id = users[i].user_id
            /\ users[i].allowed => users'[i].allowed
       /\ \A i \in (Len(users) + 1)..Len(users') : ~users'[i].allowed]_vars

\* an allowed user has just sent /register again
C6_Witness ==
    /\ last.kind = "register"
    /\ last.reply = ErrDatabase
    /\ \E i \in 1..Len(users) : users[i].allowed

(* C7: for /allow with two arguments of which the first is not the secret,
   the reply is NO_PERM on the table as it is, as it is on an empty table,
   and the step that answers NO_PERM changes no table and starts no
   update. *)
C7_SecretBeforeLookup ==
    /\ [](\A secret \in {<<"guess">>, <<"alice">>},
             username \in {Alice.username, Bob.username, <<"carol">>} :
            LET args == split_whitespace(AllowText(secret, username))
            IN  /\ allow_reply(users, args) = NO_PERM
                /\ allow_reply(users, args) = allow_reply(<<>>, args))
    /\ [][(last'.kind = "allow" /\ last'.reply = NO_PERM) =>
            /\ UNCHANGED <<users, stickers, tagged, tagSeq>>
            /\ tasks' = tasks]_vars

\* /allow with a wrong secret was just refused while a user is registered
C7_Witness ==
    /\ last.kind = "allow"
    /\ last.reply = NO_PERM
    /\ users # <<>>

(* C8: the match count a query holds for a sticker is the number of distinct
   query tokens that one of the sticker's rows contains. *)
C8_MatchCountDistinctTokens ==
    \A tk \in Running("query_stickers") :
        LET queries == split_whitespace(tk.text)
            count == match_count_for_sticker_id(tk.rows)
        IN  \A id \in DOMAIN count :
                count[id] =
                    Cardinality({q \in Range(queries) :
                        \E row \in tk.rows :
                            row.sticker_id = id /\ contains(row.tag, q)})

\* the distinct tokens of the query that a row of the sticker contains,
\* among the rows the handler read
DistinctTokensMatched(tk, id) ==
    Cardinality({q \in Range(split_whitespace(tk.text)) :
        \E row \in tk.rows : row.sticker_id = id /\ contains(row.tag, q)})

(* C9: the answer of a query is ordered by the number of distinct query
   tokens matched, descending, and among stickers with the same number by
   popularity, descending. *)
C9_RankedByTokensThenPopularity ==
    [][\A tk \in Running("query_stickers") :
            (tasks' = tasks (-) SetToBag({tk}) /\ last'.kind = "query") =>
                LET answer == last'.result
                IN  \A m, n \in 1..Len(answer) :
                        m < n =>
                            \/ DistinctTokensMatched(tk, answer[m])
                                   > DistinctTokensMatched(tk, answer[n])
                            \/ /\ DistinctTokensMatched(tk, answer[m])
                                      = DistinctTokensMatched(tk, answer[n])
                               /\ stickers[answer[m]].popularity
                                      >= stickers[answer[n]].popularity]_vars

\* a query on the rows tg can answer with sticker id
SearchReturns(tg, query_str, id) ==
    \E answer \in query_answers(stickers,
                      matching_tagged(tg, split_whitespace(query_str))) :
        id \in Range(answer)

(* C10: once a /tag has inserted its rows, a query for any of its tags
   returns the sticker.  Once the same tagger's /untag of a tag has run,
   and the sticker's rows that contain the tag were all rows of that tagger
   with that tag, a query for the tag returns the sticker no more, while a
   query for another tag that returned it still does. *)
C10_TagUntagRoundTrip ==
    [][/\ \A tk \in Running("tag_insert_many") :
            (tasks' = tasks (-) SetToBag({tk})
                /\ last'.reply = TAGGED_STICKER) =>
                \A w \in Range(split_whitespace(tk.text)) :
                    SearchReturns(tagged', w, tk.sticker_id)
       /\ \A tk \in Running("untag_delete") :
            (tasks' = tasks (-) SetToBag({tk}) /\ last'.kind = "untag") =>
                LET untags == Range(split_whitespace(tk.text))
                IN  /\ \A w \in untags :
                            (\A row \in tagged :
                                (row.sticker_id = tk.sticker_id
                                    /\ contains(row.tag, w))
                                => (row.tag = w /\ row.tagger_id = tk.db_user))
                            => ~SearchReturns(tagged', w, tk.sticker_id)
                    /\ \A v \in {C, B} :
                            (/\ \A w \in untags : ~contains(w, v)
                             /\ SearchReturns(tagged, v, tk.sticker_id))
                            => SearchReturns(tagged', v, tk.sticker_id)]_vars

\* after /tag c b and /untag c by the same tagger: the "c" row is deleted,
\* the "b" row is there, and no row with "c" is left
C10_Witness ==
    /\ last.kind = "untag"
    /\ last.result = <<1>>
    /\ \E row \in tagged : row.tag = B
    /\ \A row \in tagged : ~contains(row.tag, C)

\* a step that changes no table and leaves the handlers in flight as they
\* are
NothingChanges == UNCHANGED <<users, stickers, tagged, tagSeq>> /\ tasks' = tasks

\* the stickers that belong to a set
SetStickers == {StickerA1, StickerA2, StickerB}

(* C11: a /tag by an allowed sender in reply to a sticker without set name
   is answered NO_STICKER_SET whatever its text, the step changes no table,
   and no sticker row and no handler past the checks ever has a sticker
   without set name. *)
C11_Untaggable ==
    /\ [](\A sender \in Senders, text \in Texts :
            Allowed(sender) =>
                tag_precheck(sender, StickerReply(StickerLoose),
                             split_whitespace(text)) = NO_STICKER_SET)
    /\ [](/\ \A i \in 1..Len(stickers) : stickers[i].set_name # None
          /\ \A pc \in TagPcs : \A tk \in Running(pc) :
                tk.sticker.set_name # None)
    /\ [][(last'.kind = "tag" /\ last'.reply = NO_STICKER_SET)
            => NothingChanges]_vars

\* an allowed sender has just been answered NO_STICKER_SET
C11_Witness ==
    /\ last.kind = "tag"
    /\ last.reply = NO_STICKER_SET
    /\ Allowed(Alice)

(* C12: with a text that splits into no token, a /tag by an allowed sender
   on a sticker of a set is answered NO_TAGS and the step changes no table;
   an /untag by an allowed sender passes the checks, and its delete removes
   no row and is answered UNTAG_SUCCESS with 0 rows affected. *)
C12_EmptyTokenSet ==
    /\ [](\A sender \in Senders, s \in SetStickers, text \in {<<>>, Spaces} :
            Allowed(sender) =>
                /\ tag_precheck(sender, StickerReply(s),
                                split_whitespace(text)) = NO_TAGS
                /\ untag_precheck(sender, StickerReply(s)) = None)
    /\ [][(last'.kind = "tag" /\ last'.reply = NO_TAGS)
            => NothingChanges]_vars
    /\ [][\A tk \in Running("untag_delete") :
            (/\ split_whitespace(tk.text) = <<>>
             /\ tasks' = tasks (-) SetToBag({tk})
             /\ last'.kind = "untag")
            => /\ UNCHANGED <<users, stickers, tagged, tagSeq>>
               /\ last' = Outcome("untag", UNTAG_SUCCESS, <<0>>)]_vars

\* an /untag has deleted no row while the table holds rows: as every row
\* here is a row ("c", Alice) of the one sticker, the /untag was the one
\* with the empty text
C12_Witness ==
    /\ last = Outcome("untag", UNTAG_SUCCESS, <<0>>)
    /\ tagged # {}
    /\ \A row \in tagged : row.tag = C /\ row.tagger_id = 1

(* C18: the checks of /tag, for a sender that is present and a message
   replied to: a sender that is not allowed gets TAG_NOT_AUTHORIZED, also
   when the sticker has no set name or the text is empty; an allowed sender
   on a sticker without set name gets NO_STICKER_SET, also when the text is
   empty; an allowed sender on a sticker of a set gets NO_TAGS for an empty
   text and passes otherwise. *)
C18_PreconditionOrder ==
    \A sender \in Senders \ {NoSender}, reply_to \in Replies \ {NoReply},
       text \in Texts :
        LET tags == split_whitespace(text)
            reply == tag_precheck(sender, reply_to, tags)
        IN  /\ ~Allowed(sender) => reply = TAG_NOT_AUTHORIZED
            /\ (Allowed(sender) /\ reply_to = StickerReply(StickerLoose))
                    => reply = NO_STICKER_SET
            /\ (Allowed(sender) /\ reply_to.sticker \in SetStickers)
                    => reply = (IF tags = <<>> THEN NO_TAGS ELSE None)

\* Alice is allowed, Bob is not, a /tag has just been answered
\* NO_STICKER_SET, and the requests that fail two checks at once get the
\* reply of the first
C18_Witness ==
    /\ last.kind = "tag"
    /\ last.reply = NO_STICKER_SET
    /\ Allowed(Alice) /\ ~Allowed(Bob)
    /\ tag_precheck(Alice, StickerReply(StickerLoose), <<>>) = NO_STICKER_SET
    /\ tag_precheck(Bob, StickerReply(StickerLoose), <<>>) = TAG_NOT_AUTHORIZED

(* C13: an inline query that is empty or all whitespace never reaches the
   first database query: the handler returns at once with no result and no
   error, and the step changes no table, whatever the tables hold. *)
C13_BlankQuery ==
    /\ [](\A tk \in Running("query_stickers") :
            split_whitespace(tk.text) # <<>>)
    /\ [][last'.kind = "query" =>
            /\ last'.reply \in {None, "answer"}
            /\ last'.reply = None => (last'.result = <<>> /\ NothingChanges)]_vars

\* a blank query has just returned, on a database that holds tagged stickers
C13_Witness ==
    /\ last = Outcome("query", None, <<>>)
    /\ tagged # {}

(* C14: an answer never lists more than QUERY_RESULT_MAX stickers; it lists
   that many when more match, each once, and no matching sticker left out
   ranks above a listed one: its match count is not higher, nor at the same
   match count its popularity. *)
C14_ResultCap ==
    [][\A tk \in Running("query_stickers") :
            (tasks' = tasks (-) SetToBag({tk}) /\ last'.kind = "query") =>
                LET answer == last'.result
                    count == match_count_for_sticker_id(tk.rows)
                    left_out == DOMAIN count \ Range(answer)
                IN  /\ Len(answer) <= QUERY_RESULT_MAX
                    /\ Len(answer) = Cardinality(Range(answer))
                    /\ Range(answer) \subseteq DOMAIN count
                    /\ left_out # {} => Len(answer) = QUERY_RESULT_MAX
                    /\ \A x \in left_out, y \in Range(answer) :
                        \/ count[y] > count[x]
                        \/ /\ count[y] = count[x]
                           /\ stickers[y].popularity
                                  >= stickers[x].popularity]_vars

\* more stickers than QUERY_RESULT_MAX match, and the answer lists
\* QUERY_RESULT_MAX of them
C14_Witness ==
    /\ last.kind = "query"
    /\ Len(last.result) = QUERY_RESULT_MAX
    /\ Cardinality({row.sticker_id : row \in tagged}) > QUERY_RESULT_MAX

(* C15: a chosen result whose id parses and is the id of no sticker ends
   the handler without error and without a change to any table; the update
   of popularity is only ever run for the sticker whose id the result
   named. *)
C15_UnknownSelectionNoOp ==
    /\ [](\A tk \in Running("chosen_update") :
            /\ tk.sticker_id = parse(tk.text)
            /\ \E i \in 1..Len(stickers) : stickers[i].id = tk.sticker_id)
    /\ [][last' = Outcome("chosen", None, <<>>)
            => (NothingChanges /\ UNCHANGED chosenDone)]_vars

\* the handler has just returned Ok for an id no sticker has, while the
\* table holds a sticker
C15_Witness ==
    /\ last = Outcome("chosen", None, <<>>)
    /\ stickers # <<>>

(* C16: a /register by a sender whose user_id already has a row in
   allowed_user is not answered with a database error, and leaves the table
   as it is. *)
C16_AlreadyRegistered ==
    [][(/\ last'.kind = "register"
        /\ last'.reply \notin {SENDER_UNKNOWN, USERNAME_MISSING}
        /\ Len(users') = Len(users))
       => (last'.reply # ErrDatabase /\ users' = users)]_vars

(* C17: a /tag handler runs the fallback select only when the insert of the
   sticker failed on a unique constraint: as no sticker row is ever deleted,
   a row the insert conflicts with is in the table whenever a handler is at
   the select. *)
C17_FallbackOnlyOnConflict ==
    \A tk \in Running("tag_select") : sticker_conflicts(stickers, tk.sticker) # {}

(* C19: the insert_many of a /tag with k tokens, k >= 1, keeps every row
   and adds exactly k rows, one per token, each with the id of the sticker
   row of the request's file_unique_id and the row id of the sender; it is
   answered TAGGED_STICKER, also when rows with the same sticker, tag and
   tagger are already there.  (Unless the database fails the statement.) *)
C19_OneRowPerToken ==
    [][\A tk \in Running("tag_insert_many") :
            (tasks' = tasks (-) SetToBag({tk})
                /\ last'.kind = "tag" /\ last'.reply # ErrDatabase) =>
                LET tags == split_whitespace(tk.text)
                    new == tagged' \ tagged
                IN  /\ Len(tags) >= 1
                    /\ tagged \subseteq tagged'
                    /\ Cardinality(new) = Len(tags)
                    /\ \A j \in 1..Len(tags) :
                        Cardinality({row \in new : row.tag = tags[j]})
                            = Cardinality({i \in 1..Len(tags) : tags[i] = tags[j]})
                    /\ \A row \in new :
                        /\ row.sticker_id = tk.sticker_id
                        /\ row.tagger_id = tk.db_user
                    /\ stickers[tk.sticker_id].file_unique_id
                            = tk.sticker.file_unique_id
                    /\ last'.reply = TAGGED_STICKER]_vars

\* a /tag has just been answered TAGGED_STICKER and the table holds two
\* rows with the same sticker, tag and tagger: the request was a repeat
C19_Witness ==
    /\ last.kind = "tag"
    /\ last.reply = TAGGED_STICKER
    /\ \E r1, r2 \in tagged :
        /\ r1.id # r2.id
        /\ r1.tag = r2.tag
        /\ r1.sticker_id = r2.sticker_id
        /\ r1.tagger_id = r2.tagger_id

(* C20: no step removes a sticker row or changes a field of one other than
   popularity; a step that adds a row adds one, with popularity 0, and is
   the insert of a /tag handler that passed the three checks: its sender
   allowed, its sticker with a set name, its text with a token.  So no
   rejected /tag and no other handler creates a row. *)
C20_ItemLifecycle ==
    [][/\ Len(stickers') >= Len(stickers)
       /\ \A i \in 1..Len(stickers) :
            stickers'[i] =
                [stickers[i] EXCEPT !.popularity = stickers'[i].popularity]
       /\ Len(stickers') > Len(stickers) =>
            /\ Len(stickers') = Len(stickers) + 1
            /\ last' = NoOutcome
            /\ \E tk \in Running("tag_insert") :
                /\ tasks' = (tasks (-) SetToBag({tk}))
                        (+) SetToBag({[tk EXCEPT !.pc = "tag_insert_many",
                                                 !.sticker_id = Len(stickers'),
                                                 !.created = TRUE]})
                /\ stickers'[Len(stickers')].file_unique_id
                        = tk.sticker.file_unique_id
                /\ stickers'[Len(stickers')].popularity = 0
                /\ users[tk.db_user].allowed
                /\ tk.sticker.set_name # None
                /\ split_whitespace(tk.text) # <<>>]_vars

\* a sticker row has been created and chosen, and a /tag has just been
\* rejected for a sticker without set name: the table still holds the one
\* row
C20_Witness ==
    /\ last.kind = "tag"
    /\ last.reply = NO_STICKER_SET
    /\ Len(stickers) = 1
    /\ stickers[1].popularity > 0

(* C21: when the insert_many of a /tag fails with a database error, the
   request leaves nothing behind: no tagged_sticker row of its own, and, if
   its own insert created the sticker row, no such row either. *)
C21_NoPartialState ==
    [][\A tk \in Running("tag_insert_many") :
            (tasks' = tasks (-) SetToBag({tk})
                /\ last' = Outcome("tag", ErrDatabase, <<>>)) =>
                /\ tagged' = tagged
                /\ tk.created =>
                    ~\E i \in 1..Len(stickers') :
                        stickers'[i].id = tk.sticker_id]_vars

(* C22: every tagged_sticker row has the id of an allowed_user row whose
   allowed is true as its tagger_id, and the id of a sticker row as its
   sticker_id. *)
C22_ReferencesValid ==
    \A row \in tagged :
        /\ \E i \in 1..Len(users) :
            users[i].id = row.tagger_id /\ users[i].allowed
        /\ \E j \in 1..Len(stickers) : stickers[j].id = row.sticker_id

\* rows have been inserted by two /tag requests and an /untag has run
C22_Witness ==
    /\ Cardinality(tagged) >= 1
    /\ tagSeq >= 2
    /\ last.kind = "untag"
    /\ last.reply = UNTAG_SUCCESS

(* C23: a step of a /tag handler whose file_unique_id already has a sticker
   row leaves table sticker as it is, id, file_id, set_name and popularity
   of the row included, and the tagged_sticker rows it inserts carry the id
   of that row. *)
C23_ExistingItemReused ==
    [][\A tk \in BagToSet(tasks) :
            LET existing == {i \in 1..Len(stickers) :
                    stickers[i].file_unique_id = tk.sticker.file_unique_id}
            IN  (/\ tk.pc \in TagPcs
                 /\ CopiesIn(tk, tasks') < CopiesIn(tk, tasks)
                 /\ existing # {})
                => /\ stickers' = stickers
                   /\ \A row \in tagged' \ tagged :
                        \E i \in existing : row.sticker_id = stickers[i].id]_vars

\* the second /tag of the file has just inserted its row, and the one
\* sticker row has the file_id it was created with and the popularity that
\* chosen results gave it
C23_Witness ==
    /\ last = Outcome("tag", TAGGED_STICKER, <<1>>)
    /\ tagSeq = 2
    /\ Len(stickers) = 1
    /\ stickers[1].file_id \in {StickerA1.file_id, StickerA2.file_id}
    /\ stickers[1].popularity > 0

-----------------------------------------------------------------------------
\* The registry alone, on an empty database: three accounts with a username
\* register, two of them with the same one, and /allow names each of them
\* and a user that never registers, with the secret and with a guess.
RegistrySenders == {Alice, Bob, AliceTwin, Nameless, NoSender}
RegistryAllowTexts ==
    {AllowText(Secret, Alice.username), AllowText(Secret, Bob.username),
     AllowText(Secret, <<"carol">>), AllowText(<<"guess">>, Alice.username),
     Secret}

NextRegistry ==
    \/ handle_register_command(RegistrySenders)
    \/ AllowFindUser(RegistryAllowTexts)
    \/ AllowUpdate

SpecRegistry == Init /\ [][NextRegistry]_vars

(* C24: /allow with the secret answers NOT_REGISTERED exactly when no row
   of allowed_user has the username, and the step that answers it changes
   no table and starts no update.  The update of /allow keeps the rows of
   the table, changes at most the row it found, which has the username of
   the command, in nothing but allowed, which is true afterwards; when that
   row is allowed already the table stays as it is. *)
C24_AllowByName ==
    /\ [](\A username \in {Alice.username, Bob.username, <<"carol">>} :
            LET args == split_whitespace(AllowText(Secret, username))
            IN  allow_reply(users, args) = NOT_REGISTERED
                    <=> ~\E i \in 1..Len(users) : users[i].username = username)
    /\ [][(last'.kind = "allow" /\ last'.reply = NOT_REGISTERED) =>
            NothingChanges]_vars
    /\ [][\A tk \in Running("allow_update") :
            CopiesIn(tk, tasks') < CopiesIn(tk, tasks) =>
                LET username == split_whitespace(tk.text)[2]
                IN  /\ Len(users') = Len(users)
                    /\ \E i \in 1..Len(users) :
                        /\ users[i].id = tk.db_user
                        /\ users[i].username = username
                        /\ users'[i] = [users[i] EXCEPT !.allowed = TRUE]
                        /\ \A j \in 1..Len(users) \ {i} : users'[j] = users[j]
                        /\ users[i].allowed => users' = users]_vars

\* /allow has just allowed the first account of three, and the account with
\* the same username and the one with another are not allowed
C24_Witness ==
    /\ last = Outcome("allow", UPDATED_USER, <<1>>)
    /\ Len(users) = 3
    /\ users[1].allowed
    /\ \E i, j \in 2..3 :
        /\ users[i].username = users[1].username /\ ~users[i].allowed
        /\ users[j].username # users[1].username /\ ~users[j].allowed

====
